---- MODULE Spec2Model ----
(***************************************************************************)
(* Model of fft-image-extractor (src/src/main.rs): the windowed-FFT to     *)
(* raster mapping of main().  Frequencies are whole Hz, logarithms are     *)
(* fixed-point in units of 10^-6 decade, magnitudes are fixed-point in     *)
(* units of 1/1000.  The decoder and the FFT primitive are collaborators:  *)
(* the decoded stream is abstracted to its length and to the spectrum      *)
(* frame its windows yield.                                                *)
(***************************************************************************)
EXTENDS Integers, Naturals, Sequences, FiniteSets, TLC

\* ---------------------------------------------------------------- bounds
MaxWindows == 10     \* most whole windows in the decoded stream
MaxH == 2            \* largest --width (rows per band)
MaxPairs == 2        \* most (frequency, magnitude) pairs in a spectrum frame

\* ------------------------------------------------------ program constants
SAMPLING_WINDOW == 2048
FREQUENCY_MAX == 10000
freq_min == 20

\* log10 of a frequency, in 10^-6 decade; ln(0) is -infinity, shown as NegInf
NegInf == 0 - 100000000

Log10Micro(f) ==
    CASE f = 0     -> NegInf
      [] f = 20    -> 1301030
      [] f = 440   -> 2643453
      [] f = 10000 -> 4000000
      [] f = 10100 -> 4004321

\* The frequencies and magnitudes synthetic spectrum frames are built from.
FreqSet == {0, 20, 440, 10000, 10100}
MagSet == {0, 999, 1000}

log_freq_min == Log10Micro(freq_min)
log_freq_max == Log10Micro(FREQUENCY_MAX)

\* Spectrum frames: at most MaxPairs pairs, frequencies strictly increasing.
Frames ==
    { s \in UNION { [1..n -> FreqSet \X MagSet] : n \in 0..MaxPairs } :
        \A j \in 1..Len(s) : \A k \in 1..Len(s) : j < k => s[j][1] < s[k][1] }

SampleCounts ==
    { k * SAMPLING_WINDOW + r : k \in 0..MaxWindows, r \in {0, SAMPLING_WINDOW - 1} }

Min(a, b) == IF a < b THEN a ELSE b

\* --------------------------------------------------------- pure functions
RECURSIVE below_loop(_, _)
below_loop(n, x) == IF n * 2 < x THEN below_loop(n * 2, x) ELSE n

nearest_power_of_two_below(x) == below_loop(1, x)

RECURSIVE above_loop(_, _)
above_loop(n, x) == IF n < x THEN above_loop(n * 2, x) ELSE n

nearest_power_of_two_above(x) == above_loop(1, x)

BandWidth(nearest) == nearest \div 4

\* mutant: the band count as a ceiling, without the extra band
RowCountCeiling(total, width) == (total + width - 1) \div width

RowCount(total, width) == (total \div width) + 1

ImgX(x, width) == x % width

\* mutant: the band taken from the remainder instead of the quotient
ImgRowOffsetByRemainder(x, width, height) == (x % width) * height

ImgRowOffset(x, width, height) == (x \div width) * height

\* mutant: the upper limit of the axis is not tested
InRangeNoUpperLimit(log_freq) == ~(log_freq < log_freq_min)

InRange(log_freq) == ~(log_freq < log_freq_min \/ log_freq > log_freq_max)

\* f32::round of a non-negative quotient num/den: half away from zero
RoundDiv(num, den) == (2 * num + den) \div (2 * den)

\* mutant: the axis upside down, high frequencies at the top of the band
TargetRowInverted(log_freq, height, offset) ==
    RoundDiv((log_freq_max - log_freq) * height, log_freq_max - log_freq_min) + offset

TargetRow(log_freq, height, offset) ==
    RoundDiv((log_freq - log_freq_min) * height, log_freq_max - log_freq_min) + offset

\* mutant: the channel value rounded to nearest instead of truncated
QuantizeRounded(val) ==
    LET p == (val * 255 + 500) \div 1000
    IN  IF p > 255 THEN 255 ELSE IF p < 0 THEN 0 ELSE p

\* (val * 255.0) as u8: truncation, saturating at the ends of u8
Quantize(val) ==
    LET p == (val * 255) \div 1000
    IN  IF p > 255 THEN 255 ELSE IF p < 0 THEN 0 ELSE p

Pixel(v) == <<v, v, v, v>>

\* ------------------------------------------------------------------ state
VARIABLES
    pc,              \* position in main()
    sample_count,    \* audio_samples.len()
    h,               \* cli.width, the rows per band
    audio,           \* the spectrum frame each window of the stream yields
    total_width, nearest_w, w, row_count, img_height,
    img,             \* the ImageBuffer: <<x, row>> -> pixel
    sampling_x, sample_start, sample_end,
    data, prev_val, img_x, img_row_offset, img_row,
    sampling_y, img_row_target,
    writes,          \* history: put_pixel calls per <<x, row>>
    processed,       \* history: the windows handed to the FFT primitive
    targets          \* history: img_row_target values of the current column

vars == <<pc, sample_count, h, audio, total_width, nearest_w, w, row_count,
          img_height, img, sampling_x, sample_start, sample_end, data, prev_val,
          img_x, img_row_offset, img_row, sampling_y, img_row_target,
          writes, processed, targets>>

layout == <<total_width, nearest_w, w, row_count, img_height>>
input == <<sample_count, h, audio>>
column == <<sampling_x, sample_start, sample_end, data, img_x, img_row_offset>>

Blank == <<0, 0, 0, 0>>

Init ==
    /\ pc = "start"
    /\ sample_count \in SampleCounts
    /\ h \in 1..MaxH
    /\ audio \in Frames
    /\ total_width = 0 /\ nearest_w = 0 /\ w = 0 /\ row_count = 0 /\ img_height = 0
    /\ img = <<>>
    /\ writes = <<>>
    /\ sampling_x = 0 /\ sample_start = 0 /\ sample_end = 0
    /\ data = <<>> /\ prev_val = 0 /\ img_x = 0 /\ img_row_offset = 0 /\ img_row = 0
    /\ sampling_y = 0 /\ img_row_target = 0
    /\ processed = <<>>
    /\ targets = <<>>

\* lines 112-124 with a band width of zero: the division of line 120 panics
SetupPanic ==
    /\ pc = "start"
    /\ BandWidth(nearest_power_of_two_below(sample_count \div SAMPLING_WINDOW)) = 0
    /\ total_width' = sample_count \div SAMPLING_WINDOW
    /\ nearest_w' = nearest_power_of_two_below(total_width')
    /\ w' = BandWidth(nearest_w')
    /\ pc' = "panic"
    /\ UNCHANGED <<input, row_count, img_height, img, writes, column, prev_val,
                   img_row, sampling_y, img_row_target, processed, targets>>

\* lines 112-124: the layout and the allocation of the image
Setup ==
    /\ pc = "start"
    /\ BandWidth(nearest_power_of_two_below(sample_count \div SAMPLING_WINDOW)) # 0
    /\ total_width' = sample_count \div SAMPLING_WINDOW
    /\ nearest_w' = nearest_power_of_two_below(total_width')
    /\ w' = BandWidth(nearest_w')
    /\ row_count' = RowCount(total_width', w')
    /\ img_height' = h * row_count'
    /\ img' = [p \in (0..(w' - 1)) \X (0..(img_height' - 1)) |-> Blank]
    /\ writes' = [p \in (0..(w' - 1)) \X (0..(img_height' - 1)) |-> 0]
    /\ sampling_x' = 0
    /\ pc' = "column"
    /\ UNCHANGED <<input, sample_start, sample_end, data, img_x, img_row_offset,
                   prev_val, img_row, sampling_y, img_row_target, processed, targets>>

\* lines 131-150: one iteration of the column loop begins
BeginColumn ==
    /\ pc = "column"
    /\ sampling_x < total_width
    /\ sample_end' = Min((sampling_x + 1) * SAMPLING_WINDOW, sample_count)
    /\ sample_start' = sampling_x * SAMPLING_WINDOW
    /\ processed' = Append(processed, <<sample_start', sample_end'>>)
    /\ data' = audio
    /\ prev_val' = 0
    /\ img_x' = ImgX(sampling_x, w)
    /\ img_row_offset' = ImgRowOffset(sampling_x, w, h)
    /\ img_row' = img_row_offset'
    /\ sampling_y' = 0
    /\ targets' = <<>>
    /\ pc' = "pairs"
    /\ UNCHANGED <<input, layout, img, writes, sampling_x, img_row_target>>

\* lines 152-158: a pair outside [freq_min, FREQUENCY_MAX] is skipped
SkipPair ==
    /\ pc = "pairs"
    /\ sampling_y < Len(data)
    /\ ~InRange(Log10Micro(data[sampling_y + 1][1]))
    /\ sampling_y' = sampling_y + 1
    /\ UNCHANGED <<pc, input, layout, img, writes, column, prev_val, img_row,
                   img_row_target, processed, targets>>

\* lines 152-163: an in-range pair gets its target row
TargetPair ==
    /\ pc = "pairs"
    /\ sampling_y < Len(data)
    /\ InRange(Log10Micro(data[sampling_y + 1][1]))
    /\ img_row_target' = TargetRow(Log10Micro(data[sampling_y + 1][1]), h, img_row_offset)
    /\ targets' = Append(targets, img_row_target')
    /\ pc' = "hold"
    /\ UNCHANGED <<input, layout, img, writes, column, prev_val, img_row,
                   sampling_y, processed>>

\* img.put_pixel(img_x, img_row, Rgba([prev_val; 4])); img_row += 1
\* put_pixel panics on a coordinate outside the image
PutPixel(next) ==
    IF img_x < w /\ img_row < img_height
    THEN /\ img' = [img EXCEPT ![<<img_x, img_row>>] = Pixel(prev_val)]
         /\ writes' = [writes EXCEPT ![<<img_x, img_row>>] = @ + 1]
         /\ img_row' = img_row + 1
         /\ pc' = next
    ELSE /\ pc' = "panic"
         /\ UNCHANGED <<img, writes, img_row>>

\* lines 165-169: one iteration of the step-hold loop
HoldWrite ==
    /\ pc = "hold"
    /\ img_row < img_row_target
    /\ PutPixel("hold")
    /\ UNCHANGED <<input, layout, column, prev_val, sampling_y, img_row_target,
                   processed, targets>>

\* lines 171-172: the step-hold loop is over, the pair's magnitude is held
HoldDone ==
    /\ pc = "hold"
    /\ ~(img_row < img_row_target)
    /\ prev_val' = Quantize(data[sampling_y + 1][2])
    /\ sampling_y' = sampling_y + 1
    /\ pc' = "pairs"
    /\ UNCHANGED <<input, layout, img, writes, column, img_row, img_row_target,
                   processed, targets>>

\* line 152: the pair loop is over
EndPairs ==
    /\ pc = "pairs"
    /\ sampling_y = Len(data)
    /\ pc' = "tail"
    /\ UNCHANGED <<input, layout, img, writes, column, prev_val, img_row,
                   sampling_y, img_row_target, processed, targets>>

\* lines 175-179: one iteration of the closing fill
TailWrite ==
    /\ pc = "tail"
    /\ img_row < img_height
    /\ PutPixel("tail")
    /\ UNCHANGED <<input, layout, column, prev_val, sampling_y, img_row_target,
                   processed, targets>>

\* lines 175, 131: the closing fill is over, the next column
TailDone ==
    /\ pc = "tail"
    /\ ~(img_row < img_height)
    /\ sampling_x' = sampling_x + 1
    /\ pc' = "column"
    /\ UNCHANGED <<input, layout, img, writes, sample_start, sample_end, data,
                   img_x, img_row_offset, prev_val, img_row, sampling_y,
                   img_row_target, processed, targets>>

\* lines 131, 182-184: the column loop is over, the image is saved
Finish ==
    /\ pc = "column"
    /\ ~(sampling_x < total_width)
    /\ pc' = "done"
    /\ UNCHANGED <<input, layout, img, writes, column, prev_val, img_row,
                   sampling_y, img_row_target, processed, targets>>

Next ==
    \/ SetupPanic
    \/ Setup
    \/ BeginColumn
    \/ SkipPair
    \/ TargetPair
    \/ HoldWrite
    \/ HoldDone
    \/ EndPairs
    \/ TailWrite
    \/ TailDone
    \/ Finish

Spec == Init /\ [][Next]_vars

\* ------------------------------------------------------------ properties
Filling == pc \in {"pairs", "hold", "tail"}

\* the rows of the band of column i
BandRows(i) == ((i \div w) * h) .. ((i \div w) * h + h - 1)

\* C1: column fill completeness.  When the whole image has been processed,
\* every row of the band of every column i, at x = i mod w, has received
\* exactly one pixel write, counting the writes of all columns.
C1_ColumnFillCompleteness ==
    pc = "done" =>
        \A i \in 0..(total_width - 1) :
            \A r \in BandRows(i) : writes[<<i % w, r>>] = 1

\* C2: band layout.  Whenever the band width is at least 1, the image is
\* w = nearest_power_of_two_below(totalColumns)/4 wide and
\* rowsPerBand * (floor(totalColumns / w) + 1) high, column i starts its
\* fill at x = i mod w, row floor(i / w) * rowsPerBand, and 10 windows give
\* width 2 and height rowsPerBand * 6.
C2_BandLayout ==
    (pc # "start" /\ w >= 1) =>
        /\ total_width = sample_count \div 2048
        /\ w = nearest_power_of_two_below(total_width) \div 4
        /\ img_height = h * ((total_width \div w) + 1)
        /\ DOMAIN img = (0..(w - 1)) \X (0..(h * ((total_width \div w) + 1) - 1))
        /\ (Filling => /\ img_x = sampling_x % w
                       /\ img_row_offset = (sampling_x \div w) * h
                       /\ img_row >= img_row_offset)
        /\ (pc = "pairs" /\ sampling_y = 0 => img_row = (sampling_x \div w) * h)
        /\ (total_width = 10 => w = 2 /\ img_height = h * 6)

\* a column in the middle of the 10-window image has begun its fill
C2_Witness ==
    /\ total_width = 10 /\ w = 2 /\ img_height = h * 6
    /\ pc = "pairs" /\ sampling_y = 0
    /\ sampling_x = 5 /\ img_x = 1 /\ img_row = 2 * h

\* C3 as stated: whenever totalColumns = 2*w + 5, bandCount = 3 and column
\* w + 2 maps to band 1 with in-band x-coordinate 2.
C3_BandWrapAsStated ==
    (pc # "start" /\ w >= 1 /\ total_width = 2 * w + 5) =>
        /\ row_count = 3
        /\ (Filling /\ sampling_x = w + 2 =>
                img_row_offset = 1 * h /\ img_x = 2)

\* C3 as amended: whenever totalColumns = 2*w + 5, bandCount is
\* 3 + floor(5 / w) and column w + 2 maps to band 1 + floor(2 / w) with
\* in-band x-coordinate 2 mod w.
C3_BandWrap ==
    (pc # "start" /\ w >= 1 /\ total_width = 2 * w + 5) =>
        /\ row_count = 3 + (5 \div w)
        /\ (Filling /\ sampling_x = w + 2 =>
                img_row_offset = (1 + (2 \div w)) * h /\ img_x = 2 % w)

\* column w + 2 of a 2*w + 5 column image has begun its fill
C3_Witness ==
    /\ w = 2 /\ total_width = 9 /\ row_count = 5
    /\ pc = "pairs" /\ sampling_x = 4 /\ img_x = 0 /\ img_row_offset = 2 * h

IsPowerOfTwo(n) == \E k \in 0..n : n = 2 ^ k

\* C4: band width derivation.  For every totalColumns x >= 1 the value of
\* nearest_power_of_two_below(x) is the largest power of two that is <= x,
\* and the band width is one quarter of it.
C4_LargestPowerOfTwoAtMost ==
    (pc # "start" /\ total_width >= 1) =>
        /\ IsPowerOfTwo(nearest_w)
        /\ nearest_w <= total_width
        /\ 2 * nearest_w > total_width
        /\ w = nearest_w \div 4

\* C5: the writes of a column are disjoint from those of every other column.
\* A step of the fill of column i changes only pixels at x = i mod w whose
\* row lies in the band of column i.
C5_ColumnWritesDisjoint ==
    [][ Filling =>
          \A p \in DOMAIN writes :
              (writes'[p] # writes[p] \/ img'[p] # img[p]) =>
                  (p[1] = sampling_x % w /\ p[2] \in BandRows(sampling_x)) ]_vars

OutOfRangeHz(f) == f < 20 \/ f > 10000

\* C6: out-of-range frequency skip.  While the pair the fill is at has a
\* frequency below 20 Hz or above 10000 Hz, a step writes no pixel and leaves
\* prev_val and img_row as they were, and moves on to the next pair.
C6_OutOfRangeSkip ==
    [][ (pc \in {"pairs", "hold"} /\ sampling_y < Len(data)
             /\ OutOfRangeHz(data[sampling_y + 1][1])) =>
          /\ img' = img
          /\ writes' = writes
          /\ prev_val' = prev_val
          /\ img_row' = img_row
          /\ sampling_y' = sampling_y + 1 ]_vars

\* a pair above 10000 Hz has been skipped after an in-range pair that wrote
\* the band and left 254 held
C6_Witness ==
    /\ pc = "pairs" /\ sampling_y = 2
    /\ ~OutOfRangeHz(data[1][1]) /\ data[1][2] = 999
    /\ data[2][1] > 10000 /\ data[2][2] = 1000
    /\ prev_val = 254
    /\ img_row = img_row_offset + h

C7_RowStep ==
    /\ (pc = "column" /\ pc' = "pairs" => img_row' = img_row_offset')
    /\ (Filling /\ pc' \in {"pairs", "hold", "tail"} =>
            /\ img_row' \in {img_row, img_row + 1}
            /\ (img_row' = img_row + 1 <=> writes' # writes))

C7_TargetsOrdered ==
    Filling =>
        /\ \A j \in 1..Len(targets) : \A k \in 1..Len(targets) :
               j < k => targets[j] <= targets[k]
        /\ \A j \in 1..Len(targets) :
               targets[j] \in ((sampling_x \div w) * h) .. ((sampling_x \div w) * h + h)
        /\ Len(targets) = Cardinality({ j \in 1..Len(data) :
               (j <= sampling_y \/ (j = sampling_y + 1 /\ pc = "hold"))
               /\ data[j][1] >= 20 /\ data[j][1] <= 10000 })

\* C7: step monotonicity.  Through the fill of a column img_row starts at the
\* band's row offset and only advances, by one per write; the target rows of
\* a frame of strictly increasing frequencies are non-decreasing and lie in
\* [bandRowOffset, bandRowOffset + rowsPerBand].
C7_StepMonotonicity == [][C7_RowStep]_vars /\ []C7_TargetsOrdered

\* two pairs of increasing frequency got increasing target rows, the second
\* the bottom edge of the band, and the fill has advanced
C7_Witness ==
    /\ Len(targets) = 2 /\ targets[1] < targets[2]
    /\ data[1][1] < data[2][1]
    /\ targets[2] = img_row_offset + h
    /\ pc = "tail" /\ img_row > img_row_offset

\* the in-range pairs among the first n of the current frame
InRangePairs(n) == { j \in 1..n : ~OutOfRangeHz(data[j][1]) }

Last(S) == CHOOSE j \in S : \A k \in S : k <= j

\* the value held after the first n pairs: floor(m * 255) of the last
\* in-range pair, 0 before the first
Held(n) ==
    IF InRangePairs(n) = {} THEN 0
    ELSE (data[Last(InRangePairs(n))][2] * 255) \div 1000

C8_HeldValue ==
    Filling =>
        /\ prev_val = Held(sampling_y)
        /\ (sampling_y >= 1 /\ pc = "pairs" /\ ~OutOfRangeHz(data[sampling_y][1]) =>
                /\ (data[sampling_y][2] = 0 => prev_val = 0)
                /\ (data[sampling_y][2] = 999 => prev_val = 254)
                /\ (data[sampling_y][2] = 1000 => prev_val = 255))

C8_WriteStep ==
    \A p \in DOMAIN writes :
        writes'[p] # writes[p] => img'[p] = <<prev_val, prev_val, prev_val, prev_val>>

\* C8: pixel quantization.  The value held is floor(m * 255) of the last
\* in-range magnitude (0 -> 0, 0.999 -> 254, 1.0 -> 255) and 0 before the
\* first in-range pair of a column; every write puts the held value in all
\* 4 channels.
C8_PixelQuantization == []C8_HeldValue /\ [][C8_WriteStep]_vars

\* a magnitude of 0.999 is held as 254 and has been written to a pixel
C8_Witness ==
    /\ pc = "tail" /\ prev_val = 254
    /\ \E j \in 1..Len(data) : data[j][2] = 999
    /\ \E p \in DOMAIN img : writes[p] >= 1 /\ img[p] = <<254, 254, 254, 254>>

Terminated == pc \in {"done", "panic"}

\* C9: window segmentation.  For every sampleCount exactly
\* floor(sampleCount / 2048) windows are processed, in increasing order,
\* window i spanning [i*2048, min((i+1)*2048, sampleCount)), always 2048
\* samples.
C9_WindowSegmentation ==
    /\ \A n \in 1..Len(processed) :
           /\ processed[n][1] = (n - 1) * 2048
           /\ processed[n][2] = Min(n * 2048, sample_count)
           /\ processed[n][2] - processed[n][1] = 2048
    /\ (Terminated => Len(processed) = sample_count \div 2048)

\* C10: for every sample count the band width is at least 1, so no division
\* by zero happens, and every pixel write is inside the image.
C10_BandWidthPositive ==
    /\ pc # "panic"
    /\ (pc # "start" => w >= 1)
    /\ (pc \in {"hold", "tail"} => img_x < w)

====
